---- MODULE Spec2Model ----
(***************************************************************************)
(* Model of the nRF Cloud webhook handler (src/index.js): one invocation   *)
(* of the exported async function, from the environment gate to the final  *)
(* response, together with the document store that settles the            *)
(* createDocument promises the handler awaits.                             *)
(*                                                                         *)
(* Request bodies are texts (sequences of lexemes); JSON.parse and         *)
(* JSON.stringify are computed on them.  HMAC-SHA256 is a keyed one-way    *)
(* function, modelled as collision free: the hex digest of (key, msg) is   *)
(* the term built from key and msg.                                        *)
(***************************************************************************)
EXTENDS Integers, Sequences, FiniteSets, TLC

\* Largest number of elements in the messages array of a generated body.
MaxMsgs == 2

(***************************************************************************)
(* JavaScript values                                                       *)
(***************************************************************************)
Undefined == [k |-> "undefined"]
JNull == [k |-> "null"]
JBool(b) == [k |-> "bool", b |-> b]
JNum(n) == [k |-> "num", n |-> n]
JStr(s) == [k |-> "str", s |-> s]
JArr(a) == [k |-> "arr", a |-> a]
JObj(o) == [k |-> "obj", o |-> o]
Member(key, val) == [key |-> key, val |-> val]

\* ToBoolean: what `!v` and `v || w` test.
Falsy(v) ==
    \/ v.k \in {"undefined", "null"}
    \/ v.k = "bool" /\ ~v.b
    \/ v.k = "num" /\ v.n = "0"
    \/ v.k = "str" /\ v.s = ""

\* Index of the member with this key in an object's member list, 0 if none.
RECURSIVE KeyIndex(_, _, _)
KeyIndex(o, key, i) ==
    IF i > Len(o) THEN 0
    ELSE IF o[i].key = key THEN i
    ELSE KeyIndex(o, key, i + 1)

\* v.key cannot be evaluated: property access on null or undefined throws TypeError.
Throws(v) == v.k \in {"null", "undefined"}

\* v.key for the keys the handler reads (event, token, messages, device_id,
\* appId, ts, payload): an own property of an object, undefined otherwise.
Get(v, key) ==
    IF v.k = "obj" /\ KeyIndex(v.o, key, 1) # 0
    THEN v.o[KeyIndex(v.o, key, 1)].val
    ELSE Undefined

\* Array.isArray(v)
IsArray(v) == v.k = "arr"

(***************************************************************************)
(* Texts: sequences of lexemes                                             *)
(***************************************************************************)
P(c) == [t |-> "punct", v |-> c]
W == [t |-> "ws", v |-> " "]
Lit(name) == [t |-> "lit", v |-> name]
NumTok(n) == [t |-> "num", v |-> n]
StrTok(s) == [t |-> "str", v |-> s]
Junk(s) == [t |-> "junk", v |-> s]

\* The number a numeric literal denotes, in the form JSON.stringify prints it.
NumCanon(n) ==
    CASE n = "1.0" -> "1"
      [] n = "0.0" -> "0"
      [] OTHER -> n

RECURSIVE SkipWs(_)
SkipWs(t) == IF t # <<>> /\ Head(t).t = "ws" THEN SkipWs(Tail(t)) ELSE t

Fail == [ok |-> FALSE, val |-> Undefined, rest |-> <<>>]
Ok(v, rest) == [ok |-> TRUE, val |-> v, rest |-> rest]

\* Defining a property that already exists keeps its position and replaces its value.
SetMember(o, key, val) ==
    IF KeyIndex(o, key, 1) = 0
    THEN Append(o, Member(key, val))
    ELSE [o EXCEPT ![KeyIndex(o, key, 1)] = Member(key, val)]

RECURSIVE ParseValue(_), ParseElements(_, _), ParseMembers(_, _)
ParseValue(t0) ==
    LET t == SkipWs(t0) IN
    IF t = <<>> THEN Fail
    ELSE LET h == Head(t)
             r == Tail(t)
         IN CASE h.t = "lit" /\ h.v = "null" -> Ok(JNull, r)
              [] h.t = "lit" /\ h.v = "true" -> Ok(JBool(TRUE), r)
              [] h.t = "lit" /\ h.v = "false" -> Ok(JBool(FALSE), r)
              [] h.t = "num" -> Ok(JNum(NumCanon(h.v)), r)
              [] h.t = "str" -> Ok(JStr(h.v), r)
              [] h = P("[") ->
                    IF SkipWs(r) # <<>> /\ Head(SkipWs(r)) = P("]")
                    THEN Ok(JArr(<<>>), Tail(SkipWs(r)))
                    ELSE ParseElements(r, <<>>)
              [] h = P("{") ->
                    IF SkipWs(r) # <<>> /\ Head(SkipWs(r)) = P("}")
                    THEN Ok(JObj(<<>>), Tail(SkipWs(r)))
                    ELSE ParseMembers(r, <<>>)
              [] OTHER -> Fail

ParseElements(t, acc) ==
    LET e == ParseValue(t) IN
    IF ~e.ok THEN Fail
    ELSE LET r == SkipWs(e.rest) IN
         IF r = <<>> THEN Fail
         ELSE IF Head(r) = P(",") THEN ParseElements(Tail(r), Append(acc, e.val))
         ELSE IF Head(r) = P("]") THEN Ok(JArr(Append(acc, e.val)), Tail(r))
         ELSE Fail

ParseMembers(t, acc) ==
    LET k == SkipWs(t) IN
    IF k = <<>> \/ Head(k).t # "str" THEN Fail
    ELSE LET c == SkipWs(Tail(k)) IN
         IF c = <<>> \/ Head(c) # P(":") THEN Fail
         ELSE LET e == ParseValue(Tail(c)) IN
              IF ~e.ok THEN Fail
              ELSE LET r == SkipWs(e.rest)
                       o == SetMember(acc, Head(k).v, e.val)
                   IN IF r = <<>> THEN Fail
                      ELSE IF Head(r) = P(",") THEN ParseMembers(Tail(r), o)
                      ELSE IF Head(r) = P("}") THEN Ok(JObj(o), Tail(r))
                      ELSE Fail

\* JSON.parse(text): ok is FALSE where it throws SyntaxError.
JSONparse(text) ==
    LET r == ParseValue(text) IN
    IF r.ok /\ SkipWs(r.rest) = <<>> THEN [ok |-> TRUE, val |-> r.val]
    ELSE [ok |-> FALSE, val |-> Undefined]

\* The text JSON.stringify writes for a value that is not undefined.
RECURSIVE Serialize(_), SerializeElements(_, _), SerializeMembers(_, _)
Serialize(v) ==
    CASE v.k = "null" -> <<Lit("null")>>
      [] v.k = "undefined" -> <<Lit("null")>>
      [] v.k = "bool" -> <<Lit(IF v.b THEN "true" ELSE "false")>>
      [] v.k = "num" -> <<NumTok(v.n)>>
      [] v.k = "str" -> <<StrTok(v.s)>>
      [] v.k = "arr" -> <<P("[")>> \o SerializeElements(v.a, 1) \o <<P("]")>>
      [] v.k = "obj" -> <<P("{")>> \o SerializeMembers(v.o, 1) \o <<P("}")>>

SerializeElements(a, i) ==
    IF i > Len(a) THEN <<>>
    ELSE (IF i > 1 THEN <<P(",")>> ELSE <<>>)
         \o Serialize(a[i]) \o SerializeElements(a, i + 1)

SerializeMembers(o, i) ==
    IF i > Len(o) THEN <<>>
    ELSE (IF i > 1 THEN <<P(",")>> ELSE <<>>)
         \o <<StrTok(o[i].key), P(":")>> \o Serialize(o[i].val)
         \o SerializeMembers(o, i + 1)

\* JSON.stringify(v): undefined for undefined, else a string holding the text.
Text(t) == [k |-> "text", text |-> t]
JSONstringify(v) == IF v.k = "undefined" THEN Undefined ELSE Text(Serialize(v))

(***************************************************************************)
(* HMAC-SHA256 and the signature header                                    *)
(***************************************************************************)
\* crypto.createHmac('sha256', key).update(msg).digest('hex'): lower-case hex.
HexDigest(key, msg) == [k |-> "hex", upper |-> FALSE, key |-> key, msg |-> msg]
\* The same digest written in upper-case hex digits: another string.
UpperHex(d) == [d EXCEPT !.upper = TRUE]

(***************************************************************************)
(* Inputs                                                                  *)
(***************************************************************************)
RECURSIVE SeqsUpTo(_, _)
SeqsUpTo(S, n) ==
    IF n = 0 THEN {<<>>}
    ELSE SeqsUpTo(S, n - 1)
         \cup {Append(q, x) : q \in {r \in SeqsUpTo(S, n - 1) : Len(r) = n - 1}, x \in S}

Message(dev, app, ts, p) ==
    JObj(<<Member("device_id", JStr(dev)), Member("appId", JStr(app)),
           Member("ts", JStr(ts)), Member("payload", p)>>)

Msg1 == Message("d1", "TEMP", "t1", JObj(<<Member("c", JNum("1"))>>))
Msg2 == Message("d2", "GNSS", "t2", JStr("x"))
\* an object with no device_id and no payload
MsgBare == JObj(<<Member("appId", JStr("TEMP"))>>)

\* What an element of messages can be: Message objects, and any other JSON value.
MsgValues == {Msg1, Msg2, MsgBare, JNull, JNum("7")}

TelemetryPayloads == {JObj(<<Member("messages", JArr(ms))>>) : ms \in SeqsUpTo(MsgValues, MaxMsgs)}

VerificationPayloads ==
    { JObj(<<Member("event", JStr("verification")), Member("token", JStr("T"))>>),
      JObj(<<Member("event", JStr("verification")), Member("token", JStr("T")),
             Member("messages", JArr(<<Msg1>>))>>) }

OtherPayloads ==
    { JNull, JNum("7"), JStr("verification"), JBool(FALSE), JArr(<<Msg1>>), JObj(<<>>),
      JObj(<<Member("event", JStr("Verification")), Member("messages", JArr(<<Msg1>>))>>),
      JObj(<<Member("event", JNull), Member("messages", JArr(<<Msg2>>))>>),
      JObj(<<Member("messages", JStr("m"))>>),
      JObj(<<Member("messages", Msg1)>>),
      JObj(<<Member("messages", JNull)>>) }

\* The text with a blank after every comma and colon, and around it.
RECURSIVE Spaced(_)
Spaced(t) ==
    IF t = <<>> THEN <<W>>
    ELSE IF Head(t) \in {P(","), P(":")} THEN <<Head(t), W>> \o Spaced(Tail(t))
    ELSE <<Head(t)>> \o Spaced(Tail(t))

\* Texts that are valid JSON without being what JSON.stringify would write:
\* a number written 1.0 and a repeated key.
OddBodies ==
    { <<P("{"), StrTok("messages"), P(":"), P("["), P("{"),
        StrTok("device_id"), P(":"), StrTok("d1"), P(","),
        StrTok("payload"), P(":"), NumTok("1.0"), P(","),
        StrTok("ts"), P(":"), StrTok("t1"), P(","),
        StrTok("payload"), P(":"), P("["), NumTok("1.0"), P(","), W, Lit("true"), P("]"),
        P("}"), P("]"), P("}")>> }

\* Texts on which JSON.parse throws.
MalformedBodies ==
    { <<>>,
      <<P("{")>>,
      <<Junk("undefined")>>,
      <<P("{"), StrTok("messages"), P(":"), P("["), P("]"), P(","), P("}")>>,
      <<P("{"), StrTok("event"), P(":"), StrTok("verification"), P("}"), P("}")>>,
      <<P("{"), StrTok("messages"), P(":"), P("["), Lit("null"), P(","), P("]"), P("}")>> }

Payloads == TelemetryPayloads \cup VerificationPayloads \cup OtherPayloads

Bodies ==
    {Serialize(v) : v \in Payloads} \cup {Spaced(Serialize(v)) : v \in Payloads}
    \cup OddBodies \cup MalformedBodies

Methods == {"POST", "GET"}

\* process.env values are strings or undefined.
Envs ==
    [ webhookSecret : {Undefined, JStr(""), JStr("s1")},
      databaseId : {Undefined, JStr("db")},
      collectionId : {Undefined, JStr("col")} ]

\* Signature headers a sender can put on body b: none, an empty one, the digest
\* under the right key, that digest in upper case, the digest under another
\* key, and the right key's digest of another body.
HeadersFor(b) ==
    { Undefined, JStr(""), HexDigest(JStr("s1"), b), UpperHex(HexDigest(JStr("s1"), b)),
      HexDigest(JStr("guess"), b), HexDigest(JStr("s1"), <<P("{"), P("}"), W>>) }

Requests ==
    UNION { [method : Methods, signature : HeadersFor(b), body : {b}] : b \in Bodies }

(***************************************************************************)
(* State                                                                   *)
(***************************************************************************)
VARIABLES
    env,        \* process.env: the three required values
    req,        \* the request: method, x-nrfcloud-signature header, raw body
    pc,         \* where the handler is
    payload,    \* the parsed body
    idx,        \* position of the for..of loop in payload.messages
    calls,      \* createDocument calls issued, each with its promise's state
    responses,  \* res.send calls made
    logs,       \* log and error calls made
    evaluated   \* gates evaluated so far, in order

vars == <<env, req, pc, payload, idx, calls, responses, logs, evaluated>>

Init ==
    /\ env \in Envs
    /\ req \in Requests
    /\ pc = "env"
    /\ payload = Undefined
    /\ idx = 1
    /\ calls = <<>>
    /\ responses = <<>>
    /\ logs = <<>>
    /\ evaluated = <<>>

Response(body, status) == [body |-> body, status |-> status]
LogEntry(level, tag, arg) == [level |-> level, tag |-> tag, arg |-> arg]

\* return res.send(body, status)
Send(body, status) ==
    /\ responses' = Append(responses, Response(body, status))
    /\ pc' = "done"

(***************************************************************************)
(* The handler                                                             *)
(***************************************************************************)
\* Mutant: only the webhook secret is required.
EnvGate_SecretOnly ==
    /\ pc = "env"
    /\ evaluated' = Append(evaluated, "env")
    /\ IF Falsy(env.webhookSecret)
       THEN /\ logs' = Append(logs, LogEntry("error", "missing-env", Undefined))
            /\ Send("Internal Server Error", 500)
       ELSE /\ pc' = "method"
            /\ UNCHANGED <<logs, responses>>
    /\ UNCHANGED <<env, req, payload, idx, calls>>

\* if (!webhookSecret || !databaseId || !collectionId) ... 500
EnvGate ==
    /\ pc = "env"
    /\ evaluated' = Append(evaluated, "env")
    /\ IF Falsy(env.webhookSecret) \/ Falsy(env.databaseId) \/ Falsy(env.collectionId)
       THEN /\ logs' = Append(logs, LogEntry("error", "missing-env", Undefined))
            /\ Send("Internal Server Error", 500)
       ELSE /\ pc' = "method"
            /\ UNCHANGED <<logs, responses>>
    /\ UNCHANGED <<env, req, payload, idx, calls>>

\* Mutant: the method is not looked at.
MethodGate_AnyMethod ==
    /\ pc = "method"
    /\ evaluated' = Append(evaluated, "method")
    /\ pc' = "signature"
    /\ UNCHANGED <<env, req, payload, idx, calls, logs, responses>>

\* if (req.method !== 'POST') ... 405
MethodGate ==
    /\ pc = "method"
    /\ evaluated' = Append(evaluated, "method")
    /\ IF req.method # "POST"
       THEN Send("Method Not Allowed", 405)
       ELSE /\ pc' = "signature"
            /\ UNCHANGED responses
    /\ UNCHANGED <<env, req, payload, idx, calls, logs>>

\* Mutant: no presence test; an absent header goes on to the comparison.
SignaturePresenceGate_Skipped ==
    /\ pc = "signature"
    /\ evaluated' = Append(evaluated, "signature-present")
    /\ pc' = "verify"
    /\ UNCHANGED <<env, req, payload, idx, calls, logs, responses>>

\* if (!nrfSignature) ... 401
SignaturePresenceGate ==
    /\ pc = "signature"
    /\ evaluated' = Append(evaluated, "signature-present")
    /\ IF Falsy(req.signature)
       THEN /\ logs' = Append(logs, LogEntry("error", "missing-signature", Undefined))
            /\ Send("Unauthorized: Missing signature", 401)
       ELSE /\ pc' = "verify"
            /\ UNCHANGED <<logs, responses>>
    /\ UNCHANGED <<env, req, payload, idx, calls>>

\* const calculatedSignature = hmac.digest('hex')
calculatedSignature == HexDigest(env.webhookSecret, req.body)

\* Mutant: the digest is computed and logged but a mismatch does not return.
SignatureMatchGate_NoReturn ==
    /\ pc = "verify"
    /\ evaluated' = Append(evaluated, "signature-match")
    /\ IF calculatedSignature # req.signature
       THEN logs' = Append(logs, LogEntry("error", "signature-mismatch",
                                          JArr(<<calculatedSignature, req.signature>>)))
       ELSE logs' = Append(logs, LogEntry("log", "signature-verified", Undefined))
    /\ pc' = "parse"
    /\ UNCHANGED <<env, req, payload, idx, calls, responses>>

\* if (calculatedSignature !== nrfSignature) ... 401
SignatureMatchGate ==
    /\ pc = "verify"
    /\ evaluated' = Append(evaluated, "signature-match")
    /\ IF calculatedSignature # req.signature
       THEN /\ logs' = Append(logs, LogEntry("error", "signature-mismatch",
                                             JArr(<<calculatedSignature, req.signature>>)))
            /\ Send("Unauthorized: Invalid signature", 401)
       ELSE /\ logs' = Append(logs, LogEntry("log", "signature-verified", Undefined))
            /\ pc' = "parse"
            /\ UNCHANGED responses
    /\ UNCHANGED <<env, req, payload, idx, calls>>

\* try { payload = JSON.parse(req.body) } catch (e) { ... 400 }
ParseGate ==
    /\ pc = "parse"
    /\ evaluated' = Append(evaluated, "parse")
    /\ IF ~JSONparse(req.body).ok
       THEN /\ logs' = Append(logs, LogEntry("error", "invalid-json", Undefined))
            /\ Send("Invalid JSON", 400)
            /\ UNCHANGED payload
       ELSE /\ payload' = JSONparse(req.body).val
            /\ pc' = "event"
            /\ UNCHANGED <<logs, responses>>
    /\ UNCHANGED <<env, req, idx, calls>>

\* Mutant: the verification request is logged but the handler does not return.
VerificationCheck_FallsThrough ==
    /\ pc = "event"
    /\ IF Throws(payload)
       THEN /\ pc' = "crashed"
            /\ UNCHANGED logs
       ELSE IF Get(payload, "event") = JStr("verification")
       THEN /\ logs' = Append(logs, LogEntry("log", "verification", Get(payload, "token")))
            /\ pc' = "messages"
       ELSE /\ pc' = "messages"
            /\ UNCHANGED logs
    /\ UNCHANGED <<env, req, payload, idx, calls, evaluated, responses>>

\* if (payload.event === 'verification') ... 200.  Reading payload.event throws
\* TypeError when payload is null: the handler's promise rejects, nothing is sent.
VerificationCheck ==
    /\ pc = "event"
    /\ IF Throws(payload)
       THEN /\ pc' = "crashed"
            /\ UNCHANGED <<logs, responses>>
       ELSE IF Get(payload, "event") = JStr("verification")
       THEN /\ logs' = Append(logs, LogEntry("log", "verification", Get(payload, "token")))
            /\ Send("Verification request acknowledged", 200)
       ELSE /\ pc' = "messages"
            /\ UNCHANGED <<logs, responses>>
    /\ UNCHANGED <<env, req, payload, idx, calls, evaluated>>

\* Array.isArray(payload.messages) && payload.messages.length > 0
HasMessages(p) == IsArray(Get(p, "messages")) /\ Len(Get(p, "messages").a) > 0

\* Mutant: a payload without messages is rejected as a bad request.
MessagesCheck_RejectsEmpty ==
    /\ pc = "messages"
    /\ IF HasMessages(payload)
       THEN /\ logs' = Append(logs, LogEntry("log", "processing",
                                             JNum(ToString(Len(Get(payload, "messages").a)))))
            /\ pc' = "loop"
            /\ UNCHANGED responses
       ELSE /\ logs' = Append(logs, LogEntry("log", "no-messages", Undefined))
            /\ Send("No messages", 400)
    /\ UNCHANGED <<env, req, payload, idx, calls, evaluated>>

\* if (Array.isArray(payload.messages) && payload.messages.length > 0) {...} else {log}
\* The then-branch also builds the Client and Databases objects (lines 60-65),
\* which hold no state the handler reads back; the SDK's setters are taken to return.
MessagesCheck ==
    /\ pc = "messages"
    /\ IF HasMessages(payload)
       THEN /\ logs' = Append(logs, LogEntry("log", "processing",
                                             JNum(ToString(Len(Get(payload, "messages").a)))))
            /\ pc' = "loop"
       ELSE /\ logs' = Append(logs, LogEntry("log", "no-messages", Undefined))
            /\ pc' = "final"
    /\ UNCHANGED <<env, req, payload, idx, calls, responses, evaluated>>

\* the element the for..of loop is at
message == Get(payload, "messages").a[idx]

\* Mutant: the payload is stored as parsed, not as its JSON text.
StoredRecord_RawPayload(m) ==
    [ deviceId |-> Get(m, "device_id"),
      appId |-> Get(m, "appId"),
      timestamp |-> Get(m, "ts"),
      payload |-> Get(m, "payload") ]

\* the fourth argument of createDocument
StoredRecord(m) ==
    [ deviceId |-> Get(m, "device_id"),
      appId |-> Get(m, "appId"),
      timestamp |-> Get(m, "ts"),
      payload |-> JSONstringify(Get(m, "payload")) ]

Call(m) ==
    [ databaseId |-> env.databaseId, collectionId |-> env.collectionId,
      documentId |-> "unique()", data |-> StoredRecord(m), state |-> "pending" ]

\* the loop is over: fall out of the if to the final response
LoopExit ==
    /\ pc = "loop"
    /\ idx > Len(Get(payload, "messages").a)
    /\ pc' = "final"
    /\ UNCHANGED <<env, req, payload, idx, calls, responses, logs, evaluated>>

\* Mutant: the await is missing; the loop goes on while the write is pending.
CreateDocument_NotAwaited ==
    /\ pc = "loop"
    /\ idx <= Len(Get(payload, "messages").a)
    /\ ~Throws(Get(payload, "messages").a[idx])
    /\ calls' = Append(calls, [ databaseId |-> env.databaseId,
                                collectionId |-> env.collectionId,
                                documentId |-> "unique()",
                                data |-> StoredRecord(Get(payload, "messages").a[idx]),
                                state |-> "pending" ])
    /\ logs' = Append(logs, LogEntry("log", "stored",
                                     Get(Get(payload, "messages").a[idx], "device_id")))
    /\ idx' = idx + 1
    /\ pc' = "loop"
    /\ UNCHANGED <<env, req, payload, responses, evaluated>>

\* await databases.createDocument(...): the call is issued and the handler waits
CreateDocument ==
    /\ pc = "loop"
    /\ idx <= Len(Get(payload, "messages").a)
    /\ ~Throws(message)
    /\ calls' = Append(calls, Call(message))
    /\ pc' = "await"
    /\ UNCHANGED <<env, req, payload, idx, responses, logs, evaluated>>

\* message is null: message.device_id throws inside the try, and the catch
\* block's own message.device_id throws again, out of the handler.
MessageTypeError ==
    /\ pc = "loop"
    /\ idx <= Len(Get(payload, "messages").a)
    /\ Throws(message)
    /\ pc' = "crashed"
    /\ UNCHANGED <<env, req, payload, idx, calls, responses, logs, evaluated>>

Settle(i, state) == calls' = [calls EXCEPT ![i].state = state]

\* the store completes a pending write
StoreFulfil ==
    /\ \E i \in 1..Len(calls) : calls[i].state = "pending" /\ Settle(i, "fulfilled")
    /\ UNCHANGED <<env, req, pc, payload, idx, responses, logs, evaluated>>

\* the store fails a pending write
StoreReject ==
    /\ \E i \in 1..Len(calls) : calls[i].state = "pending" /\ Settle(i, "rejected")
    /\ UNCHANGED <<env, req, pc, payload, idx, responses, logs, evaluated>>

\* the await returns: log(`Successfully stored ...`), next element
AwaitReturns ==
    /\ pc = "await"
    /\ calls[Len(calls)].state = "fulfilled"
    /\ logs' = Append(logs, LogEntry("log", "stored", Get(message, "device_id")))
    /\ idx' = idx + 1
    /\ pc' = "loop"
    /\ UNCHANGED <<env, req, payload, calls, responses, evaluated>>

\* Mutant: the try/catch is around the loop, so the first failure ends the loop.
CatchDatabaseError_EndsLoop ==
    /\ pc = "await"
    /\ calls[Len(calls)].state = "rejected"
    /\ logs' = Append(logs, LogEntry("error", "database-error",
                                     IF Falsy(Get(message, "device_id"))
                                     THEN JStr("unknown")
                                     ELSE Get(message, "device_id")))
    /\ pc' = "final"
    /\ UNCHANGED <<env, req, payload, idx, calls, responses, evaluated>>

\* the await throws: catch (e) { error(...) }, next element
CatchDatabaseError ==
    /\ pc = "await"
    /\ calls[Len(calls)].state = "rejected"
    /\ logs' = Append(logs, LogEntry("error", "database-error",
                                     IF Falsy(Get(message, "device_id"))
                                     THEN JStr("unknown")
                                     ELSE Get(message, "device_id")))
    /\ idx' = idx + 1
    /\ pc' = "loop"
    /\ UNCHANGED <<env, req, payload, calls, responses, evaluated>>

\* return res.send('Webhook processing complete', 200)
FinalResponse ==
    /\ pc = "final"
    /\ Send("Webhook processing complete", 200)
    /\ UNCHANGED <<env, req, payload, idx, calls, logs, evaluated>>

Next ==
    \/ EnvGate
    \/ MethodGate
    \/ SignaturePresenceGate
    \/ SignatureMatchGate
    \/ ParseGate
    \/ VerificationCheck
    \/ MessagesCheck
    \/ LoopExit
    \/ CreateDocument
    \/ MessageTypeError
    \/ StoreFulfil
    \/ StoreReject
    \/ AwaitReturns
    \/ CatchDatabaseError
    \/ FinalResponse

Spec == Init /\ [][Next]_vars

(***************************************************************************)
(* Properties                                                              *)
(***************************************************************************)
\* The three required environment values are set (non-empty).
Configured ==
    /\ env.webhookSecret \notin {Undefined, JStr("")}
    /\ env.databaseId \notin {Undefined, JStr("")}
    /\ env.collectionId \notin {Undefined, JStr("")}

HeaderPresent == req.signature \notin {Undefined, JStr("")}
HeaderMatches == req.signature = HexDigest(env.webhookSecret, req.body)

\* The request is a POST to a configured function with the body's own digest.
CorrectlySigned == Configured /\ req.method = "POST" /\ HeaderPresent /\ HeaderMatches

\* What the body denotes (meaningful when BodyIsJson).
BodyIsJson == JSONparse(req.body).ok
Parsed == JSONparse(req.body).val
IsObjectLike(v) == v.k \notin {"null", "undefined"}
IsVerification(v) == IsObjectLike(v) /\ Get(v, "event") = JStr("verification")
MessagesOf(v) == IF IsArray(Get(v, "messages")) THEN Get(v, "messages").a ELSE <<>>

\* A correctly signed telemetry batch: at least one element, none of them null.
IsBatch ==
    /\ CorrectlySigned /\ BodyIsJson
    /\ IsObjectLike(Parsed) /\ ~IsVerification(Parsed)
    /\ MessagesOf(Parsed) # <<>>
    /\ \A i \in 1..Len(MessagesOf(Parsed)) : IsObjectLike(MessagesOf(Parsed)[i])

OnlyResponse(body, status) == responses = <<[body |-> body, status |-> status]>>
Pending == {i \in 1..Len(calls) : calls[i].state = "pending"}
Range(q) == {q[i] : i \in 1..Len(q)}

\* C1: when the signature comparison is reached (configured function, POST,
\* header present) and the header differs from hex(HMAC-SHA256(secret, body)),
\* the response is 401 'Unauthorized: Invalid signature', the body is never
\* parsed and no createDocument call is issued; when it is equal the handler
\* goes on to parse the body.  In every state, createDocument calls exist only
\* in an invocation whose header equals the computed digest.
C1_SignatureGuardsWrites ==
    /\ calls # <<>> => HeaderMatches
    /\ (Configured /\ req.method = "POST" /\ HeaderPresent /\ ~HeaderMatches
            /\ pc \notin {"env", "method", "signature", "verify"})
         => /\ pc = "done"
            /\ OnlyResponse("Unauthorized: Invalid signature", 401)
            /\ "parse" \notin Range(evaluated)
            /\ calls = <<>>
    /\ (CorrectlySigned /\ pc \notin {"env", "method", "signature", "verify"})
         => (pc = "parse" \/ "parse" \in Range(evaluated))

\* C1 witness: a batch with messages, signed with the right digest in upper
\* case, was answered 401.
C1_Witness ==
    /\ pc = "done"
    /\ Configured /\ req.method = "POST"
    /\ req.signature = UpperHex(HexDigest(env.webhookSecret, req.body))
    /\ BodyIsJson /\ MessagesOf(Parsed) # <<>>
    /\ OnlyResponse("Unauthorized: Invalid signature", 401)

\* C2: for a correctly signed batch of N messages, whatever subset of the
\* writes the store rejects, the handler never throws, every message gets its
\* createDocument call, and the final response is 200 'Webhook processing
\* complete'.
C2_FailuresDoNotStopTheBatch ==
    IsBatch =>
        /\ pc # "crashed"
        /\ Len(calls) <= Len(MessagesOf(Parsed))
        /\ responses # <<>> =>
              /\ Len(calls) = Len(MessagesOf(Parsed))
              /\ OnlyResponse("Webhook processing complete", 200)
        /\ pc = "done" => responses # <<>>

\* C2 witness: the first write was rejected, a later one was issued and
\* fulfilled, and 200 was sent.
C2_Witness ==
    /\ IsBatch /\ pc = "done"
    /\ Len(calls) >= 2
    /\ calls[1].state = "rejected"
    /\ calls[Len(calls)].state = "fulfilled"
    /\ OnlyResponse("Webhook processing complete", 200)

\* The text JSON.stringify writes for the payload [1.0, true] of the one message
\* of the body in OddBodies.
OddPayloadText == Text(<<P("["), NumTok("1"), P(","), Lit("true"), P("]")>>)

\* C3: for a correctly signed batch of N messages whose writes all succeed,
\* when the response is sent exactly N createDocument calls were made, the
\* i-th for the i-th message, to the configured database and collection with
\* id 'unique()', with deviceId = device_id, appId = appId, timestamp = ts and
\* payload = JSON.stringify(payload) of that message; the response is 200.
C3_OneRecordPerMessage ==
    (IsBatch /\ pc = "done" /\ \A i \in 1..Len(calls) : calls[i].state = "fulfilled")
      => /\ Len(calls) = Len(MessagesOf(Parsed))
         /\ \A i \in 1..Len(calls) :
              LET m == MessagesOf(Parsed)[i]
                  c == calls[i]
              IN /\ c.databaseId = env.databaseId
                 /\ c.collectionId = env.collectionId
                 /\ c.documentId = "unique()"
                 /\ c.data.deviceId = Get(m, "device_id")
                 /\ c.data.appId = Get(m, "appId")
                 /\ c.data.timestamp = Get(m, "ts")
                 /\ c.data.payload = JSONstringify(Get(m, "payload"))
                 /\ c.data.payload.k \in {"text", "undefined"}
         /\ req.body \in OddBodies =>
              /\ calls[1].data.payload = OddPayloadText
              /\ calls[1].data.deviceId = JStr("d1")
              /\ calls[1].data.appId = Undefined
         /\ OnlyResponse("Webhook processing complete", 200)

\* C3 witness: two different well-formed messages, sent with blanks in the
\* body, were both stored, in order.
C3_Witness ==
    /\ IsBatch /\ pc = "done"
    /\ MessagesOf(Parsed) = <<Msg2, Msg1>>
    /\ req.body # Serialize(Parsed)
    /\ Len(calls) = 2
    /\ \A i \in 1..2 : calls[i].state = "fulfilled"
    /\ calls[1].data.deviceId = JStr("d2")
    /\ calls[2].data.payload = Text(<<P("{"), StrTok("c"), P(":"), NumTok("1"), P("}")>>)

\* C4: for a correctly signed body whose event field is "verification", no
\* createDocument call is ever issued and the invocation ends with the
\* response 200 'Verification request acknowledged', also when the payload
\* carries a non-empty messages array.
C4_VerificationIsTerminal ==
    (CorrectlySigned /\ BodyIsJson /\ IsVerification(Parsed))
      => /\ calls = <<>>
         /\ pc \notin {"crashed", "messages", "loop", "await", "final"}
         /\ pc = "done" => OnlyResponse("Verification request acknowledged", 200)

\* C4 witness: a verification payload that also carries a message was acknowledged.
C4_Witness ==
    /\ CorrectlySigned /\ BodyIsJson /\ IsVerification(Parsed)
    /\ MessagesOf(Parsed) # <<>>
    /\ pc = "done"
    /\ OnlyResponse("Verification request acknowledged", 200)

\* C5: every invocation ends with exactly one response, of status 500, 405,
\* 401, 400 or 200: it never ends by an uncaught exception and never sends two.
C5_AlwaysOneResponse ==
    /\ pc # "crashed"
    /\ Len(responses) <= 1
    /\ pc = "done" =>
         /\ Len(responses) = 1
         /\ responses[1].status \in {500, 405, 401, 400, 200}

\* C6: a request whose method is not POST never causes a createDocument call,
\* and when it reaches the method gate (the function is configured) the
\* response is 405 'Method Not Allowed'.
C6_MethodGate ==
    req.method # "POST" =>
        /\ calls = <<>>
        /\ payload = Undefined
        /\ (Configured /\ pc \notin {"env", "method"})
             => pc = "done" /\ OnlyResponse("Method Not Allowed", 405)

\* C6 witness: a GET that carries a batch and its right digest was answered 405.
C6_Witness ==
    /\ req.method = "GET" /\ Configured /\ HeaderMatches
    /\ BodyIsJson /\ MessagesOf(Parsed) # <<>>
    /\ pc = "done"
    /\ OnlyResponse("Method Not Allowed", 405)

\* C7: a request without the signature header never causes a createDocument
\* call, and when it reaches the signature gate (configured function, POST)
\* the response is 401 'Unauthorized: Missing signature'.
C7_MissingSignature ==
    req.signature = Undefined =>
        /\ calls = <<>>
        /\ payload = Undefined
        /\ (Configured /\ req.method = "POST" /\ pc \notin {"env", "method", "signature"})
             => pc = "done" /\ OnlyResponse("Unauthorized: Missing signature", 401)

\* C7 witness: a POST of a batch with no signature header was answered 401.
C7_Witness ==
    /\ req.signature = Undefined /\ Configured /\ req.method = "POST"
    /\ BodyIsJson /\ MessagesOf(Parsed) # <<>>
    /\ pc = "done"
    /\ OnlyResponse("Unauthorized: Missing signature", 401)

\* The messages field is an empty sequence, is missing, or is not a sequence.
NoMessages(v) ==
    \/ Get(v, "messages") = JArr(<<>>)
    \/ Get(v, "messages") = Undefined
    \/ Get(v, "messages").k # "arr"

\* C8: for a correctly signed payload that is not a verification event and
\* whose messages field is an empty sequence, missing or not a sequence, no
\* createDocument call is issued and the invocation ends with the response
\* 200 'Webhook processing complete'.
C8_NoMessagesNoWrites ==
    (CorrectlySigned /\ BodyIsJson /\ ~IsVerification(Parsed) /\ NoMessages(Parsed))
      => /\ calls = <<>>
         /\ pc \notin {"crashed", "loop", "await"}
         /\ pc = "done" => OnlyResponse("Webhook processing complete", 200)

\* What does hold of the no-messages branch: the same, for every parsed value
\* other than null (objects, arrays, strings, numbers, booleans).
NoMessagesNoWrites_NotNull ==
    (CorrectlySigned /\ BodyIsJson /\ IsObjectLike(Parsed)
        /\ ~IsVerification(Parsed) /\ NoMessages(Parsed))
      => /\ calls = <<>>
         /\ pc \notin {"crashed", "loop", "await"}
         /\ pc = "done" => OnlyResponse("Webhook processing complete", 200)

GateOrder == <<"env", "method", "signature-present", "signature-match", "parse">>

\* Which gates the request fails, decided on the inputs alone.
GateFails(g) ==
    CASE g = "env" -> ~Configured
      [] g = "method" -> req.method # "POST"
      [] g = "signature-present" -> ~HeaderPresent
      [] g = "signature-match" -> ~HeaderMatches
      [] g = "parse" -> ~BodyIsJson

GateResponse(g) ==
    CASE g = "env" -> [body |-> "Internal Server Error", status |-> 500]
      [] g = "method" -> [body |-> "Method Not Allowed", status |-> 405]
      [] g = "signature-present" -> [body |-> "Unauthorized: Missing signature", status |-> 401]
      [] g = "signature-match" -> [body |-> "Unauthorized: Invalid signature", status |-> 401]
      [] g = "parse" -> [body |-> "Invalid JSON", status |-> 400]

\* Position in GateOrder of the first gate the request fails, 0 if it passes all.
RECURSIVE FirstFailingFrom(_)
FirstFailingFrom(i) ==
    IF i > Len(GateOrder) THEN 0
    ELSE IF GateFails(GateOrder[i]) THEN i
    ELSE FirstFailingFrom(i + 1)
FirstFailingGate == FirstFailingFrom(1)

\* C9: the gates are evaluated in the order env, method, signature presence,
\* signature match, parse; when some gate fails, no gate after the first
\* failing one is evaluated, no createDocument call is made, and the only
\* response is that gate's (500, 405, 401, 401, 400).
C9_FirstFailingGateAnswers ==
    /\ Len(evaluated) <= Len(GateOrder)
    /\ \A i \in 1..Len(evaluated) : evaluated[i] = GateOrder[i]
    /\ FirstFailingGate # 0 =>
         /\ Len(evaluated) <= FirstFailingGate
         /\ calls = <<>>
         /\ pc # "crashed"
         /\ responses # <<>> =>
               /\ responses = <<GateResponse(GateOrder[FirstFailingGate])>>
               /\ Len(evaluated) = FirstFailingGate
         /\ Len(evaluated) = FirstFailingGate => pc = "done" /\ responses # <<>>

\* C9 witness: a body that is not JSON, with a digest made under another key,
\* was answered 401 and never parsed.
C9_Witness ==
    /\ Configured /\ req.method = "POST" /\ HeaderPresent
    /\ ~BodyIsJson /\ ~HeaderMatches
    /\ pc = "done"
    /\ evaluated = <<"env", "method", "signature-present", "signature-match">>
    /\ OnlyResponse("Unauthorized: Invalid signature", 401)

\* C10: at most one createDocument call is pending at any time, a call is
\* issued only when every earlier one has completed, and no response is sent
\* while a call is pending.
C10_WritesAreSequential ==
    /\ Cardinality(Pending) <= 1
    /\ \A i \in 1..Len(calls) : i < Len(calls) => calls[i].state # "pending"
    /\ responses # <<>> => Pending = {}
    /\ pc \in {"final", "done"} => Pending = {}

\* C10 witness: the second call is pending after the first one was rejected.
C10_Witness ==
    /\ Len(calls) = 2
    /\ calls[1].state = "rejected"
    /\ calls[2].state = "pending"
    /\ pc = "await"

====
